---- MODULE Spec2Model ----
(***************************************************************************)
(* Model of the texture-sampling demo (src/main.rs): the linear setup      *)
(* sequence of main, the event-loop closure with its three arms, the       *)
(* per-frame render submission, and the texture upload.  The GPU executes  *)
(* committed command buffers asynchronously to the thread that runs the    *)
(* closure.                                                                *)
(***************************************************************************)
EXTENDS Integers, Sequences, FiniteSets, TLC

\* Largest image width/height drawn for the decoded image file.
MaxDim == 2
\* Largest number of redraw-request events the loop delivers in one run.
MaxFrames == 3
\* Width and height, in pixels, of the modelled drawable surface.
SurfaceSize == 3

---------------------------------------------------------------------------
(* Colours: 8-bit channel values.                                          *)

Colour(r, g, b, a) == [r |-> r, g |-> g, b |-> b, a |-> a]

Red   == Colour(255, 0, 0, 255)
Green == Colour(0, 255, 0, 255)
Grey  == Colour(90, 90, 90, 255)

\* MTLClearColor::new(0.5, 0.5, 0.8, 0.1) as 8-bit unorm channel values.
ClearColour == Colour(128, 128, 204, 26)

---------------------------------------------------------------------------
(* The files read at startup.                                              *)

\* A decodable image: width, height and the pixel at (x, y), rows top-down.
SolidImage(w, h, c) ==
    [decodable |-> TRUE, width |-> w, height |-> h,
     pixels |-> [x \in 0..(w-1), y \in 0..(h-1) |-> c]]

\* An image whose first column is red and whose other columns are green.
SplitImage(w, h) ==
    [decodable |-> TRUE, width |-> w, height |-> h,
     pixels |-> [x \in 0..(w-1), y \in 0..(h-1) |-> IF x = 0 THEN Red ELSE Green]]

\* A file image::open fails on.
UndecodableImage ==
    [decodable |-> FALSE, width |-> 0, height |-> 0,
     pixels |-> [x \in {}, y \in {} |-> Red]]

ImageFiles ==
    {UndecodableImage}
    \cup {SolidImage(w, h, c) : w \in 1..MaxDim, h \in 1..MaxDim, c \in {Red, Grey}}
    \cup {SplitImage(w, w) : w \in {MaxDim}}

LibraryFiles == {"missing", "no_functions", "valid"}

---------------------------------------------------------------------------
(* The vertex data of the quad.                                            *)

Vertex(px, py, tx, ty) == [p |-> <<px, py>>, t |-> <<tx, ty>>]

\* Faulty variant: the last vertex repeats the first, so the second
\* triangle degenerates and the upper-left half of the square is lost.
vertex_data_degenerate ==
    << Vertex( 1, -1, 1, 1),
       Vertex( 1,  1, 1, 0),
       Vertex(-1, -1, 0, 1),
       Vertex(-1, -1, 0, 1),
       Vertex( 1,  1, 1, 0),
       Vertex( 1, -1, 1, 1) >>

vertex_data ==
    << Vertex( 1, -1, 1, 1),
       Vertex( 1,  1, 1, 0),
       Vertex(-1, -1, 0, 1),
       Vertex(-1, -1, 0, 1),
       Vertex( 1,  1, 1, 0),
       Vertex(-1,  1, 0, 0) >>

\* mem::size_of::<AAPLVertex>(): four c_float fields, #[repr(C)].
SizeOfAAPLVertex == 4 * 4

\* device.new_buffer_with_data(ptr, len * size_of, options)
NewBufferWithData(data) ==
    [contents |-> data, length |-> Len(data) * SizeOfAAPLVertex]

\* The vertex count of encoder.draw_primitives(Triangle, 0, 6).
DrawVertexCount == 6

---------------------------------------------------------------------------
(* Texture Loader.                                                         *)

ChannelOf(c, k) == CASE k = 0 -> c.r [] k = 1 -> c.g [] k = 2 -> c.b [] OTHER -> c.a

\* image.into_rgba().into_raw(): row-major, four bytes R, G, B, A per pixel.
IntoRaw(img) ==
    [i \in 1..(img.width * img.height * 4) |->
        LET k  == (i - 1) % 4
            px == ((i - 1) \div 4) % img.width
            py == ((i - 1) \div 4) \div img.width
        IN  ChannelOf(img.pixels[px, py], k)]

\* texture.replace_region(region, 0, bytes_per_row, ptr): for every row of the
\* region, four bytes per texel are copied from ptr + row * bytes_per_row.
ReplaceRegion(td, reg, bytes_per_row, l) ==
    [i \in 1..(td.width * td.height * 4) |->
        LET k  == (i - 1) % 4
            tx == ((i - 1) \div 4) % td.width
            ty == ((i - 1) \div 4) \div td.width
            src == (ty - reg.origin.y) * bytes_per_row + (tx - reg.origin.x) * 4 + k + 1
        IN  IF /\ tx >= reg.origin.x /\ tx < reg.origin.x + reg.size.width
               /\ ty >= reg.origin.y /\ ty < reg.origin.y + reg.size.height
               /\ src \in 1..Len(l)
            THEN l[src] ELSE 0]

\* Faulty variant: the row stride counted in texels, not bytes.
BytesPerRowInTexels(width) == width

BytesPerRow(width) == 4 * width

prepare_texture_from_file(img) ==
    LET width  == img.width
        height == img.height
        td  == [width |-> width, height |-> height, pixel_format |-> "BGRA8Unorm"]
        reg == [origin |-> [x |-> 0, y |-> 0, z |-> 0],
                size   |-> [width |-> width, height |-> height, depth |-> 1]]
        bytes_per_row == BytesPerRow(width)
        l == IntoRaw(img)
    IN  [width |-> td.width, height |-> td.height, pixel_format |-> td.pixel_format,
         region |-> reg, bytes_per_row |-> bytes_per_row, uploaded |-> Len(l),
         storage |-> ReplaceRegion(td, reg, bytes_per_row, l)]

\* The colour a texture yields for texel (x, y): a BGRA8Unorm texel stores
\* its channels in the byte order blue, green, red, alpha.
TexelColour(tex, x, y) ==
    LET base == (y * tex.width + x) * 4
    IN  Colour(tex.storage[base + 3], tex.storage[base + 2],
               tex.storage[base + 1], tex.storage[base + 4])

---------------------------------------------------------------------------
(* Execution of one render pass on the device.  Positions are scaled by    *)
(* SurfaceSize so that pixel centres are integers.                         *)

Min(a, b) == IF a < b THEN a ELSE b

\* Centre of surface pixel (i, j) in clip space, times SurfaceSize; row 0 is
\* the top row, clip-space y points up.
PixelCentre(i, j) == <<2 * i + 1 - SurfaceSize, SurfaceSize - (2 * j + 1)>>

\* vertexShader: the vertex position is the clip-space position.
ClipPosition(v) == <<v.p[1] * SurfaceSize, v.p[2] * SurfaceSize>>

Edge(a, b, q) == (b[1] - a[1]) * (q[2] - a[2]) - (b[2] - a[2]) * (q[1] - a[1])

\* Rasterisation: the pixel centre lies in the triangle (edges included).
Covers(va, vb, vc, q) ==
    LET a == ClipPosition(va)  b == ClipPosition(vb)  c == ClipPosition(vc)
        e1 == Edge(a, b, q)  e2 == Edge(b, c, q)  e3 == Edge(c, a, q)
    IN  /\ e1 + e2 + e3 # 0
        /\ \/ (e1 >= 0 /\ e2 >= 0 /\ e3 >= 0)
           \/ (e1 <= 0 /\ e2 <= 0 /\ e3 <= 0)

\* samplingShader: the texture sampled at the interpolated texture
\* coordinate (nearest texel; coordinate (0,0) is the texture's top left).
FragmentColour(va, vb, vc, q, tex) ==
    LET a == ClipPosition(va)  b == ClipPosition(vb)  c == ClipPosition(vc)
        e1 == Edge(a, b, q)  e2 == Edge(b, c, q)  e3 == Edge(c, a, q)
        area == e1 + e2 + e3
        s  == IF area < 0 THEN -1 ELSE 1
        un == s * (e2 * va.t[1] + e3 * vb.t[1] + e1 * vc.t[1])
        vn == s * (e2 * va.t[2] + e3 * vb.t[2] + e1 * vc.t[2])
        x  == Min(tex.width - 1, (un * tex.width) \div (s * area))
        y  == Min(tex.height - 1, (vn * tex.height) \div (s * area))
    IN  TexelColour(tex, x, y)

\* The surface a render pass leaves: the load action, then every triangle of
\* the draw call in order.
RenderPass(pass, buf, tex, count) ==
    LET tris == 0..((count \div 3) - 1)
        V(t, k) == buf.contents[3 * t + k]
        Hit(q) == {t \in tris : Covers(V(t, 1), V(t, 2), V(t, 3), q)}
        Last(S) == CHOOSE t \in S : \A u \in S : u <= t
    IN  [i \in 0..(SurfaceSize - 1), j \in 0..(SurfaceSize - 1) |->
            LET q == PixelCentre(i, j)
            IN  IF Hit(q) = {}
                THEN pass.clear_color
                ELSE LET t == Last(Hit(q))
                     IN  FragmentColour(V(t, 1), V(t, 2), V(t, 3), q, tex)]

---------------------------------------------------------------------------
(* State.                                                                  *)

VARIABLES
    pc,                     \* the position of the thread running main
    files,                  \* the two input files found at startup
    window,                 \* "none" until the window is built
    layer,                  \* "none" until the layer is attached to the view
    library,                \* the loaded shader library ("none" before)
    vbuf,                   \* the vertex buffer
    pipeline_state,         \* the render pipeline state
    tref,                   \* the texture
    created,                \* how many buffers, pipelines, textures were created
    exit_code,              \* -1 while the process runs
    control_flow,           \* the control flag the event loop acts on (the
                            \* loop starts with Poll, the closure never writes it)
    written,                \* the flag value the running closure call wrote
    event,                  \* the event of the current (or last) closure call
    redraw_requested,       \* window.request_redraw() is pending
    nframes,                \* redraw-request events delivered so far
    drawable,               \* the closure's local: 0, or the drawable acquired
    render_pass_descriptor, \* the closure's local render pass descriptor
    command_buffer,         \* the closure's local: 0, or the command buffer index
    encoder,                \* "none", "open" or "ended"
    calls,                  \* the calls the current closure call made, in order
    acquired,               \* how many drawables the layer has handed out
    attempts,               \* how many times next_drawable was called
    targets,                \* the drawable of every render pass built, in order
    cbs,                    \* every command buffer obtained from the queue
    screen                  \* what the last presented drawable shows

vars == <<pc, files, window, layer, library, vbuf, pipeline_state, tref, created,
          exit_code, control_flow, written, event, redraw_requested, nframes,
          drawable, render_pass_descriptor, command_buffer, encoder, calls,
          acquired, attempts, targets, cbs, screen>>

setup_vars == <<files, window, layer, library, vbuf, pipeline_state, tref, created>>
frame_vars == <<drawable, render_pass_descriptor, command_buffer, encoder,
                acquired, attempts, targets, cbs>>

NoBuffer   == [contents |-> <<>>, length |-> 0]
NoPipeline == [vertex_function |-> "none", fragment_function |-> "none",
               pixel_format |-> "none"]
NoTexture  == [width |-> 0, height |-> 0, pixel_format |-> "none",
               region |-> [origin |-> [x |-> 0, y |-> 0, z |-> 0],
                           size |-> [width |-> 0, height |-> 0, depth |-> 0]],
               bytes_per_row |-> 0, uploaded |-> 0, storage |-> <<>>]
NoPass     == [texture |-> 0, load_action |-> "none", clear_color |-> ClearColour,
               store_action |-> "none"]
NoDraw     == [primitive |-> "none", start |-> 0, count |-> 0, encoder |-> "none"]
BlankScreen == [i \in 0..(SurfaceSize - 1), j \in 0..(SurfaceSize - 1) |->
                   Colour(0, 0, 0, 0)]

Events == {"CloseRequested", "MainEventsCleared", "RedrawRequested", "Other"}

Init ==
    /\ pc = "build_window"
    /\ files \in [library : LibraryFiles, image : ImageFiles]
    /\ window = "none"
    /\ layer = "none"
    /\ library = "none"
    /\ vbuf = NoBuffer
    /\ pipeline_state = NoPipeline
    /\ tref = NoTexture
    /\ created = [vbuf |-> 0, pipeline_state |-> 0, texture |-> 0]
    /\ exit_code = -1
    /\ control_flow = "Poll"
    /\ written = "Poll"
    /\ event = "none"
    /\ redraw_requested = FALSE
    /\ nframes = 0
    /\ drawable = 0
    /\ render_pass_descriptor = NoPass
    /\ command_buffer = 0
    /\ encoder = "none"
    /\ calls = <<>>
    /\ acquired = 0
    /\ attempts = 0
    /\ targets = <<>>
    /\ cbs = <<>>
    /\ screen = BlankScreen

---------------------------------------------------------------------------
(* Setup: main, lines 93-173.                                              *)

\* A failed unwrap()/expect(): the thread panics and the process ends with
\* the panic exit status.
Panic ==
    /\ pc' = "panicked"
    /\ exit_code' = 101

BuildWindow ==
    /\ pc = "build_window"
    /\ window' = "built"
    /\ pc' = "device"
    /\ UNCHANGED <<files, layer, library, vbuf, pipeline_state, tref, created,
                   exit_code, control_flow, written, event, redraw_requested,
                   nframes, calls, screen>>
    /\ UNCHANGED frame_vars

SetupDevice ==
    /\ pc = "device"
    /\ layer' = "attached"
    /\ pc' = "vbuf"
    /\ UNCHANGED <<files, window, library, vbuf, pipeline_state, tref, created,
                   exit_code, control_flow, written, event, redraw_requested,
                   nframes, calls, screen>>
    /\ UNCHANGED frame_vars

CreateVertexBuffer ==
    /\ pc = "vbuf"
    /\ vbuf' = NewBufferWithData(vertex_data)
    /\ created' = [created EXCEPT !.vbuf = @ + 1]
    /\ pc' = "library"
    /\ UNCHANGED <<files, window, layer, library, pipeline_state, tref,
                   exit_code, control_flow, written, event, redraw_requested,
                   nframes, calls, screen>>
    /\ UNCHANGED frame_vars

\* Faulty variant: a missing library file does not stop startup.
LoadLibraryUnchecked ==
    /\ pc = "library"
    /\ library' = files.library
    /\ pc' = "pipeline"
    /\ UNCHANGED <<files, window, layer, vbuf, pipeline_state, tref, created,
                   exit_code, control_flow, written, event, redraw_requested,
                   nframes, calls, screen>>
    /\ UNCHANGED frame_vars

LoadLibrary ==
    /\ pc = "library"
    /\ IF files.library = "missing"
       THEN /\ Panic
            /\ UNCHANGED library
       ELSE /\ library' = files.library
            /\ pc' = "pipeline"
            /\ UNCHANGED exit_code
    /\ UNCHANGED <<files, window, layer, vbuf, pipeline_state, tref, created,
                   control_flow, written, event, redraw_requested,
                   nframes, calls, screen>>
    /\ UNCHANGED frame_vars

prepare_pipeline_state ==
    /\ pc = "pipeline"
    /\ IF library = "no_functions"
       THEN /\ Panic
            /\ UNCHANGED <<pipeline_state, created>>
       ELSE /\ pipeline_state' = [vertex_function |-> "vertexShader",
                                  fragment_function |-> "samplingShader",
                                  pixel_format |-> "BGRA8Unorm"]
            /\ created' = [created EXCEPT !.pipeline_state = @ + 1]
            /\ pc' = "texture"
            /\ UNCHANGED exit_code
    /\ UNCHANGED <<files, window, layer, library, vbuf, tref,
                   control_flow, written, event, redraw_requested,
                   nframes, calls, screen>>
    /\ UNCHANGED frame_vars

PrepareTexture ==
    /\ pc = "texture"
    /\ IF ~files.image.decodable
       THEN /\ Panic
            /\ UNCHANGED <<tref, created>>
       ELSE /\ tref' = prepare_texture_from_file(files.image)
            /\ created' = [created EXCEPT !.texture = @ + 1]
            /\ pc' = "idle"
            /\ UNCHANGED exit_code
    /\ UNCHANGED <<files, window, layer, library, vbuf, pipeline_state,
                   control_flow, written, event, redraw_requested,
                   nframes, calls, screen>>
    /\ UNCHANGED frame_vars

---------------------------------------------------------------------------
(* The event loop and its closure: main, lines 175-227.                    *)

loop_vars == <<control_flow, written, event, redraw_requested, nframes>>

NewCb == [pass |-> NoPass, pipeline |-> "none", vertex_buffer |-> "none",
          fragment_texture |-> "none", draw |-> NoDraw, encodings |-> 0,
          present |-> 0, commits |-> 0, status |-> "recording"]

\* event_loop.run calls the closure with the next event; the closure's first
\* statement writes ControlFlow::Wait (line 179).  Redraw-request events come
\* from request_redraw() and from the OS alike.
Dispatch(e) ==
    /\ pc = "idle"
    /\ e = "RedrawRequested" => nframes < MaxFrames
    /\ event' = e
    /\ written' = "Wait"
    /\ calls' = <<>>
    /\ nframes' = IF e = "RedrawRequested" THEN nframes + 1 ELSE nframes
    /\ redraw_requested' = IF e = "RedrawRequested" THEN FALSE ELSE redraw_requested
    /\ pc' = "match"
    /\ UNCHANGED <<exit_code, control_flow, screen>>
    /\ UNCHANGED setup_vars
    /\ UNCHANGED frame_vars

\* The closure returns having written w: its locals are dropped, and the loop
\* takes the flag over; ControlFlow::Exit, once set, is sticky.
Return(w) ==
    /\ pc' = "idle"
    /\ control_flow' = IF control_flow = "Exit" THEN "Exit" ELSE w
    /\ drawable' = 0
    /\ render_pass_descriptor' = NoPass
    /\ command_buffer' = 0
    /\ encoder' = "none"

\* Faulty variant: the close arm only prints and leaves the flag at Wait.
HandleCloseRequestedNoExit ==
    /\ pc = "match"
    /\ event = "CloseRequested"
    /\ Return(written)
    /\ UNCHANGED <<exit_code, written, event, redraw_requested, nframes, calls,
                   screen, acquired, attempts, targets, cbs>>
    /\ UNCHANGED setup_vars

HandleCloseRequested ==
    /\ pc = "match"
    /\ event = "CloseRequested"
    /\ written' = "Exit"
    /\ Return("Exit")
    /\ UNCHANGED <<exit_code, event, redraw_requested, nframes, calls, screen,
                   acquired, attempts, targets, cbs>>
    /\ UNCHANGED setup_vars

HandleMainEventsCleared ==
    /\ pc = "match"
    /\ event = "MainEventsCleared"
    /\ redraw_requested' = TRUE
    /\ Return(written)
    /\ UNCHANGED <<exit_code, written, event, nframes, calls, screen,
                   acquired, attempts, targets, cbs>>
    /\ UNCHANGED setup_vars

\* Faulty variant: the catch-all arm ends the loop.
HandleOtherExits ==
    /\ pc = "match"
    /\ event = "Other"
    /\ written' = "Exit"
    /\ Return("Exit")
    /\ UNCHANGED <<exit_code, event, redraw_requested, nframes, calls,
                   screen, acquired, attempts, targets, cbs>>
    /\ UNCHANGED setup_vars

HandleOther ==
    /\ pc = "match"
    /\ event = "Other"
    /\ Return(written)
    /\ UNCHANGED <<exit_code, written, event, redraw_requested, nframes, calls,
                   screen, acquired, attempts, targets, cbs>>
    /\ UNCHANGED setup_vars

\* Faulty variant: None is not checked, the frame goes on without a drawable.
NextDrawableUnchecked ==
    /\ pc = "match"
    /\ event = "RedrawRequested"
    /\ attempts' = attempts + 1
    /\ calls' = Append(calls, "next_drawable")
    /\ \/ /\ acquired' = acquired + 1
          /\ drawable' = acquired + 1
       \/ /\ drawable' = 0
          /\ UNCHANGED acquired
    /\ pc' = "render_pass"
    /\ UNCHANGED <<control_flow, render_pass_descriptor, command_buffer, encoder>>
    /\ UNCHANGED <<exit_code, written, event, redraw_requested, nframes, screen,
                   targets, cbs>>
    /\ UNCHANGED setup_vars

\* Faulty variant: the first drawable acquired is kept and used by every
\* later frame.
NextDrawableCached ==
    /\ pc = "match"
    /\ event = "RedrawRequested"
    /\ attempts' = attempts + 1
    /\ calls' = Append(calls, "next_drawable")
    /\ \/ /\ acquired' = IF acquired = 0 THEN 1 ELSE acquired
          /\ drawable' = 1
          /\ pc' = "render_pass"
          /\ UNCHANGED <<control_flow, render_pass_descriptor, command_buffer, encoder>>
       \/ /\ Return(written)
          /\ UNCHANGED acquired
    /\ UNCHANGED <<exit_code, written, event, redraw_requested, nframes, screen,
                   targets, cbs>>
    /\ UNCHANGED setup_vars

\* layer.next_drawable(): a fresh drawable, or None.
NextDrawable ==
    /\ pc = "match"
    /\ event = "RedrawRequested"
    /\ attempts' = attempts + 1
    /\ calls' = Append(calls, "next_drawable")
    /\ \/ /\ acquired' = acquired + 1
          /\ drawable' = acquired + 1
          /\ pc' = "render_pass"
          /\ UNCHANGED <<control_flow, render_pass_descriptor, command_buffer, encoder>>
       \/ /\ Return(written)
          /\ UNCHANGED acquired
    /\ UNCHANGED <<exit_code, written, event, redraw_requested, nframes, screen,
                   targets, cbs>>
    /\ UNCHANGED setup_vars

\* RenderPassDescriptor::new() and prepare_render_pass_descriptor, lines 37-45.
prepare_render_pass_descriptor ==
    /\ pc = "render_pass"
    /\ render_pass_descriptor' = [texture |-> drawable, load_action |-> "Clear",
                                  clear_color |-> ClearColour,
                                  store_action |-> "Store"]
    /\ targets' = Append(targets, drawable)
    /\ calls' = Append(calls, "prepare_render_pass_descriptor")
    /\ pc' = "new_command_buffer"
    /\ UNCHANGED <<exit_code, screen, drawable, command_buffer, encoder, acquired,
                   attempts, cbs>>
    /\ UNCHANGED loop_vars
    /\ UNCHANGED setup_vars

\* Faulty variant: the first command buffer is kept and used again by every
\* later frame.
NewCommandBufferReused ==
    /\ pc = "new_command_buffer"
    /\ cbs' = IF cbs = <<>> THEN <<NewCb>> ELSE cbs
    /\ command_buffer' = 1
    /\ calls' = Append(calls, "new_command_buffer")
    /\ pc' = "new_encoder"
    /\ UNCHANGED <<exit_code, screen, drawable, render_pass_descriptor, encoder,
                   acquired, attempts, targets>>
    /\ UNCHANGED loop_vars
    /\ UNCHANGED setup_vars

NewCommandBuffer ==
    /\ pc = "new_command_buffer"
    /\ cbs' = Append(cbs, NewCb)
    /\ command_buffer' = Len(cbs) + 1
    /\ calls' = Append(calls, "new_command_buffer")
    /\ pc' = "new_encoder"
    /\ UNCHANGED <<exit_code, screen, drawable, render_pass_descriptor, encoder,
                   acquired, attempts, targets>>
    /\ UNCHANGED loop_vars
    /\ UNCHANGED setup_vars

\* One call on the encoder or the command buffer: the call is logged, the
\* command buffer record is updated, and the thread moves on.
Step(from, to, name, cb) ==
    /\ pc = from
    /\ cbs' = [cbs EXCEPT ![command_buffer] = cb]
    /\ calls' = Append(calls, name)
    /\ pc' = to
    /\ UNCHANGED <<exit_code, screen, drawable, render_pass_descriptor,
                   command_buffer, acquired, attempts, targets>>
    /\ UNCHANGED loop_vars
    /\ UNCHANGED setup_vars

NewRenderCommandEncoder ==
    /\ Step("new_encoder", "set_pipeline", "new_render_command_encoder",
            [cbs[command_buffer] EXCEPT !.pass = render_pass_descriptor,
                                        !.encodings = @ + 1])
    /\ encoder' = "open"

SetRenderPipelineState ==
    /\ Step("set_pipeline", "set_vertex_buffer", "set_render_pipeline_state",
            [cbs[command_buffer] EXCEPT !.pipeline = "pipeline_state"])
    /\ UNCHANGED encoder

SetVertexBuffer ==
    /\ Step("set_vertex_buffer", "set_fragment_texture", "set_vertex_buffer",
            [cbs[command_buffer] EXCEPT !.vertex_buffer = "vbuf"])
    /\ UNCHANGED encoder

SetFragmentTexture ==
    /\ Step("set_fragment_texture", "draw", "set_fragment_texture",
            [cbs[command_buffer] EXCEPT !.fragment_texture = "tref"])
    /\ UNCHANGED encoder

DrawPrimitives ==
    /\ Step("draw", "end_encoding", "draw_primitives",
            [cbs[command_buffer] EXCEPT
                !.draw = [primitive |-> "Triangle", start |-> 0,
                          count |-> DrawVertexCount, encoder |-> encoder]])
    /\ UNCHANGED encoder

EndEncoding ==
    /\ Step("end_encoding", "present", "end_encoding", cbs[command_buffer])
    /\ encoder' = "ended"

\* Faulty variant: the command buffer is committed without a presentation
\* having been scheduled.
PresentDrawableSkipped ==
    /\ pc = "present"
    /\ pc' = "commit"
    /\ UNCHANGED <<exit_code, screen, calls, drawable, render_pass_descriptor,
                   command_buffer, encoder, acquired, attempts, targets, cbs>>
    /\ UNCHANGED loop_vars
    /\ UNCHANGED setup_vars

PresentDrawable ==
    /\ Step("present", "commit", "present_drawable",
            [cbs[command_buffer] EXCEPT !.present = drawable])
    /\ UNCHANGED encoder

\* command_buffer.commit() is the closure's last statement: it returns.
Commit ==
    /\ pc = "commit"
    /\ cbs' = [cbs EXCEPT ![command_buffer] =
                  [@ EXCEPT !.commits = @ + 1,
                            !.status = IF @ = "recording" THEN "committed" ELSE @]]
    /\ calls' = Append(calls, "commit")
    /\ Return(written)
    /\ UNCHANGED <<exit_code, written, event, redraw_requested, nframes, screen,
                   acquired, attempts, targets>>
    /\ UNCHANGED setup_vars

\* The loop stops once the flag is Exit; run() then ends the process.
LoopExit ==
    /\ pc = "idle"
    /\ control_flow = "Exit"
    /\ pc' = "exited"
    /\ exit_code' = 0
    /\ UNCHANGED <<calls, screen>>
    /\ UNCHANGED loop_vars
    /\ UNCHANGED setup_vars
    /\ UNCHANGED frame_vars

---------------------------------------------------------------------------
(* The device: committed command buffers execute in commit order,          *)
(* asynchronously to the thread above.                                     *)

BoundBuffer(cb)  == IF cb.vertex_buffer = "vbuf" THEN vbuf ELSE NoBuffer
BoundTexture(cb) == IF cb.fragment_texture = "tref" THEN tref ELSE NoTexture

ExecuteCommandBuffer(cb) ==
    RenderPass(cb.pass, BoundBuffer(cb), BoundTexture(cb),
               IF cb.draw.primitive = "Triangle" THEN cb.draw.count ELSE 0)

Committed == {i \in 1..Len(cbs) : cbs[i].status = "committed"}

GpuComplete ==
    /\ Committed # {}
    /\ pc # "panicked"
    /\ LET i == CHOOSE k \in Committed : \A m \in Committed : k <= m
       IN  /\ cbs' = [cbs EXCEPT ![i].status = "completed"]
           /\ screen' = IF cbs[i].present # 0
                        THEN ExecuteCommandBuffer(cbs[i])
                        ELSE screen
    /\ UNCHANGED <<pc, exit_code, calls, drawable, render_pass_descriptor,
                   command_buffer, encoder, acquired, attempts, targets>>
    /\ UNCHANGED loop_vars
    /\ UNCHANGED setup_vars

---------------------------------------------------------------------------

ClosureStep ==
    \/ HandleCloseRequested
    \/ HandleMainEventsCleared
    \/ HandleOther
    \/ NextDrawable
    \/ prepare_render_pass_descriptor
    \/ NewCommandBuffer
    \/ NewRenderCommandEncoder
    \/ SetRenderPipelineState
    \/ SetVertexBuffer
    \/ SetFragmentTexture
    \/ DrawPrimitives
    \/ EndEncoding
    \/ PresentDrawable
    \/ Commit

Next ==
    \/ BuildWindow
    \/ SetupDevice
    \/ CreateVertexBuffer
    \/ LoadLibrary
    \/ prepare_pipeline_state
    \/ PrepareTexture
    \/ \E e \in Events : Dispatch(e)
    \/ HandleCloseRequested
    \/ HandleMainEventsCleared
    \/ HandleOther
    \/ NextDrawable
    \/ prepare_render_pass_descriptor
    \/ NewCommandBuffer
    \/ NewRenderCommandEncoder
    \/ SetRenderPipelineState
    \/ SetVertexBuffer
    \/ SetFragmentTexture
    \/ DrawPrimitives
    \/ EndEncoding
    \/ PresentDrawable
    \/ Commit
    \/ LoopExit
    \/ GpuComplete

Spec == Init /\ [][Next]_vars

\* The closure runs to its end once called, and the loop acts on an Exit
\* flag at the end of an iteration.
LiveSpec ==
    /\ Spec
    /\ WF_vars(ClosureStep)
    /\ SF_vars(LoopExit)

---------------------------------------------------------------------------
(* Positions of the thread.                                                *)

PresenterPcs == {"render_pass", "new_command_buffer", "new_encoder", "set_pipeline",
                 "set_vertex_buffer", "set_fragment_texture", "draw",
                 "end_encoding", "present", "commit"}
LoopPcs == {"idle", "match"} \cup PresenterPcs

ExpectedCalls ==
    << "next_drawable", "prepare_render_pass_descriptor", "new_command_buffer",
       "new_render_command_encoder", "set_render_pipeline_state",
       "set_vertex_buffer", "set_fragment_texture", "draw_primitives",
       "end_encoding", "present_drawable", "commit" >>

\* The closure call for the last delivered event has returned.
Returned == pc \in {"idle", "exited"} /\ event # "none"

---------------------------------------------------------------------------
(* C1: once a close-window event has been handled (a redraw request may be *)
(* pending), the flag the loop acts on is Exit, the loop exits, and after  *)
(* the loop has exited the closure is never called and the Frame Presenter *)
(* makes no further call.                                                  *)

C1_CloseExitsLoop ==
    /\ [](event = "CloseRequested" /\ Returned => control_flow = "Exit")
    /\ (event = "CloseRequested" /\ pc = "idle") ~> (pc = "exited")
    /\ [][pc = "exited" =>
            /\ pc' = "exited"
            /\ UNCHANGED <<event, calls, attempts, acquired, targets, nframes,
                           drawable, command_buffer, encoder>>
            /\ Len(cbs') = Len(cbs)]_vars

C1_Witness ==
    /\ pc = "exited"
    /\ event = "CloseRequested"
    /\ redraw_requested
    /\ Len(cbs) > 0

---------------------------------------------------------------------------
(* C2: when next_drawable returns None the closure returns at once: no     *)
(* render pass is built, no command buffer obtained, nothing encoded,      *)
(* presented or committed (the presenter only ever works on an acquired    *)
(* drawable), the flag written stays Wait; and every redraw-request call,  *)
(* whatever happened before, starts with a new acquisition attempt.        *)

C2_NoDrawableSkipsFrame ==
    /\ [](pc \in PresenterPcs => drawable # 0)
    /\ [](\A i \in 1..Len(targets) : targets[i] # 0)
    /\ [](\A i \in 1..Len(cbs) : cbs[i].present \in {0, targets[i]})
    /\ [][(pc = "match" /\ event = "RedrawRequested" /\ pc' = "idle") =>
            /\ calls' = <<"next_drawable">>
            /\ written' = "Wait"
            /\ control_flow' = IF control_flow = "Exit" THEN "Exit" ELSE "Wait"
            /\ UNCHANGED <<acquired, targets, cbs, screen, render_pass_descriptor,
                           command_buffer, encoder, drawable>>]_vars
    /\ [][(pc = "match" /\ event = "RedrawRequested" /\ pc' # pc) =>
            /\ attempts' = attempts + 1
            /\ pc' \in {"idle", "render_pass"}]_vars

\* A frame was skipped for want of a drawable, and a later redraw request
\* acquired one.
C2_Witness ==
    /\ pc = "render_pass"
    /\ attempts = 2
    /\ acquired = 1
    /\ drawable = 1
    /\ cbs = <<>>

---------------------------------------------------------------------------
(* C3: a redraw-request call that acquires a drawable makes its calls once *)
(* each in the order of ExpectedCalls; the render pass targets the         *)
(* acquired drawable with Clear and Store; the draw is one Triangle draw   *)
(* of 6 vertices issued while the encoder is open, with pipeline, vertex   *)
(* buffer and fragment texture bound; the drawable presented is the one    *)
(* the pass targets, and it is scheduled before the commit.                *)

FrameComplete(i) ==
    LET cb == cbs[i]
    IN  /\ cb.pass = [texture |-> targets[i], load_action |-> "Clear",
                      clear_color |-> ClearColour, store_action |-> "Store"]
        /\ cb.encodings = 1
        /\ cb.pipeline = "pipeline_state"
        /\ cb.vertex_buffer = "vbuf"
        /\ cb.fragment_texture = "tref"
        /\ cb.draw = [primitive |-> "Triangle", start |-> 0, count |-> 6,
                      encoder |-> "open"]
        /\ cb.present = targets[i]
        /\ cb.commits = 1

C3_FrameStepsInOrder ==
    /\ Len(calls) <= Len(ExpectedCalls)
    /\ calls = SubSeq(ExpectedCalls, 1, Len(calls))
    /\ (pc \in PresenterPcs => drawable # 0 /\ Len(calls) >= 1)
    /\ (Returned /\ Len(calls) > 1 =>
            /\ calls = ExpectedCalls
            /\ Len(cbs) = Len(targets)
            /\ FrameComplete(Len(cbs)))
    /\ \A i \in 1..(Len(cbs) - 1) : FrameComplete(i)

C3_Witness ==
    /\ pc = "idle"
    /\ calls = ExpectedCalls
    /\ Len(cbs) = 2

---------------------------------------------------------------------------
(* C4 as stated: with the shader library missing, startup ends with a      *)
(* non-zero exit status, no window has been created, and the event loop is *)
(* never entered.                                                          *)

C4_Original ==
    files.library = "missing" =>
        /\ pc \notin LoopPcs \cup {"exited"}
        /\ event = "none"
        /\ (pc = "panicked" => exit_code > 0 /\ window = "none")

(* C4 as amended: with the shader library missing, startup ends with a     *)
(* non-zero exit status before the event loop is entered and before the    *)
(* pipeline state and the texture are created; the window has been built   *)
(* by then.                                                                *)

C4_MissingLibraryIsFatal ==
    files.library = "missing" =>
        /\ pc \notin LoopPcs \cup {"exited", "pipeline", "texture"}
        /\ event = "none"
        /\ created.pipeline_state = 0 /\ created.texture = 0
        /\ (pc = "panicked" => exit_code > 0 /\ window = "built")

C4_Witness ==
    /\ files.library = "missing"
    /\ pc = "panicked"
    /\ exit_code = 101
    /\ window = "built"

---------------------------------------------------------------------------
(* C5: at every point at most one command buffer is obtained and not yet   *)
(* committed, and it is the newest one; every earlier command buffer had   *)
(* its presentation scheduled and was committed exactly once before the    *)
(* next was obtained; no command buffer is committed twice or used by a    *)
(* later frame; and the thread makes no call that waits for the device.    *)

Uncommitted == {i \in 1..Len(cbs) : cbs[i].commits = 0}

C5_OneCommandBufferAtATime ==
    /\ Cardinality(Uncommitted) <= 1
    /\ \A i \in 1..Len(cbs) :
          /\ cbs[i].commits <= 1
          /\ cbs[i].encodings <= 1
          /\ (i < Len(cbs) => cbs[i].commits = 1 /\ cbs[i].present # 0)
          /\ (cbs[i].commits = 1 => cbs[i].present # 0)
    /\ \A i, j \in 1..Len(cbs) :
          (i # j /\ cbs[i].present # 0) => cbs[i].present # cbs[j].present
    /\ (command_buffer # 0 =>
            /\ command_buffer = Len(cbs)
            /\ Uncommitted = {command_buffer})
    /\ (command_buffer = 0 /\ pc \in LoopPcs \ {"new_command_buffer"} =>
            Uncommitted = {})
    /\ \A k \in 1..Len(calls) :
          calls[k] \notin {"wait_until_completed", "wait_until_scheduled"}

\* A second command buffer is being recorded while the first, committed, has
\* not yet completed on the device.
C5_Witness ==
    /\ Len(cbs) = 2
    /\ cbs[1].status = "committed"
    /\ cbs[1].commits = 1
    /\ command_buffer = 2
    /\ pc = "commit"

---------------------------------------------------------------------------
(* C6: once setup is over exactly one vertex buffer, one pipeline state    *)
(* and one texture have been created and they keep the contents setup gave *)
(* them; every render pass targets the drawable acquired by the same       *)
(* closure call, and no two render passes target the same drawable.        *)

C6_ResourcesFixedDrawablePerFrame ==
    /\ (pc \in LoopPcs \cup {"exited"} =>
            /\ created = [vbuf |-> 1, pipeline_state |-> 1, texture |-> 1]
            /\ vbuf = NewBufferWithData(vertex_data)
            /\ pipeline_state = [vertex_function |-> "vertexShader",
                                 fragment_function |-> "samplingShader",
                                 pixel_format |-> "BGRA8Unorm"]
            /\ tref = prepare_texture_from_file(files.image))
    /\ \A i, j \in 1..Len(targets) : i # j => targets[i] # targets[j]
    /\ \A i \in 1..Len(targets) : targets[i] \in 1..acquired
    /\ \A i \in 1..Len(cbs) : cbs[i].pass.texture \in {0, targets[i]}
    /\ (pc \in PresenterPcs => drawable = acquired)
    /\ (pc \in PresenterPcs \ {"render_pass"} =>
            /\ render_pass_descriptor.texture = drawable
            /\ targets[Len(targets)] = drawable)
    /\ (pc \notin PresenterPcs => drawable = 0 /\ render_pass_descriptor = NoPass)

C6_Witness ==
    /\ pc = "commit"
    /\ Len(targets) = 2
    /\ targets = <<1, 2>>
    /\ created = [vbuf |-> 1, pipeline_state |-> 1, texture |-> 1]

---------------------------------------------------------------------------
(* C7: for a decodable image of width w and height h the texture has       *)
(* width w and height h, the region uploaded has origin (0,0,0) and size   *)
(* (w,h,1), bytes-per-row is 4*w and the uploaded buffer holds w*h*4 bytes *)
(* (one row of the buffer per row of the region).                          *)

C7_TextureMatchesImage ==
    created.texture > 0 =>
        LET w == files.image.width
            h == files.image.height
        IN  /\ tref.width = w
            /\ tref.height = h
            /\ tref.region = [origin |-> [x |-> 0, y |-> 0, z |-> 0],
                              size |-> [width |-> w, height |-> h, depth |-> 1]]
            /\ tref.bytes_per_row = 4 * w
            /\ tref.uploaded = w * h * 4
            /\ tref.uploaded = tref.bytes_per_row * h
            /\ Len(tref.storage) = tref.uploaded

C7_Witness ==
    /\ created.texture = 1
    /\ files.image.width = 1
    /\ files.image.height = 2
    /\ tref.uploaded = 8

---------------------------------------------------------------------------
(* C8: the vertex buffer holds exactly 6 vertices, the number the draw     *)
(* call uses; vertices 1-3 and 4-6 are two triangles inside the square     *)
(* from (-1,-1) to (1,1) whose union is the whole square; equal positions  *)
(* carry equal texture coordinates and the four corners carry the four     *)
(* distinct texture corners (0,0), (1,0), (0,1), (1,1).                    *)

Corners == {<<x, y>> : x \in {-1, 1}, y \in {-1, 1}}
TextureCorners == {<<u, v>> : u \in {0, 1}, v \in {0, 1}}

\* Every lattice point of the square (clip space times SurfaceSize).
SquarePoints ==
    {<<x, y>> : x \in (-SurfaceSize)..SurfaceSize, y \in (-SurfaceSize)..SurfaceSize}

C8_QuadCoversSquare ==
    created.vbuf > 0 =>
        LET v == vbuf.contents
        IN  /\ Len(v) = 6
            /\ Len(v) = DrawVertexCount
            /\ vbuf.length = 6 * 16
            /\ \A i \in 1..Len(v) : v[i].p \in Corners /\ v[i].t \in TextureCorners
            /\ {v[i].p : i \in 1..Len(v)} = Corners
            /\ {v[i].t : i \in 1..Len(v)} = TextureCorners
            /\ \A i, j \in 1..Len(v) : (v[i].p = v[j].p) <=> (v[i].t = v[j].t)
            /\ \A q \in SquarePoints :
                  \/ Covers(v[1], v[2], v[3], q)
                  \/ Covers(v[4], v[5], v[6], q)

C8_Witness ==
    /\ created.vbuf = 1
    /\ pc = "library"
    /\ Len(vbuf.contents) = 6

---------------------------------------------------------------------------
(* C9: with a 2x2 solid-red image and a valid shader library, once a frame *)
(* has been presented the centre of the surface shows red, the texture     *)
(* yields for every texel the channel values decoded from the file, and no *)
(* pixel of the surface shows the clear colour.                            *)

Presented == \E i \in 1..Len(cbs) : cbs[i].status = "completed" /\ cbs[i].present # 0

C9_RedImageShowsRed ==
    (files.image = SolidImage(2, 2, Red) /\ files.library = "valid" /\ Presented) =>
        /\ screen[SurfaceSize \div 2, SurfaceSize \div 2] = Red
        /\ \A x \in 0..1, y \in 0..1 :
              TexelColour(tref, x, y) = files.image.pixels[x, y]
        /\ \A i \in 0..(SurfaceSize - 1), j \in 0..(SurfaceSize - 1) :
              screen[i, j] # ClearColour

---------------------------------------------------------------------------
(* C10: a closure call leaves Exit written if and only if its event is the *)
(* close-window event; every other call leaves Wait; the events-drained    *)
(* call changes nothing but the pending redraw request (and the flag, to   *)
(* Wait); the Frame Presenter runs only in redraw-request calls.           *)

C10_ExitOnlyOnClose ==
    /\ [](Returned => (written = "Exit" <=> event = "CloseRequested"))
    /\ [](Returned /\ event # "CloseRequested" => written = "Wait")
    /\ [](pc \in {"match"} \cup PresenterPcs => written = "Wait")
    /\ [](pc \in PresenterPcs \/ calls # <<>> => event = "RedrawRequested")
    /\ [][(pc = "match" /\ event = "MainEventsCleared" /\ pc' # pc) =>
            /\ pc' = "idle"
            /\ redraw_requested'
            /\ control_flow' = IF control_flow = "Exit" THEN "Exit" ELSE "Wait"
            /\ UNCHANGED <<written, event, nframes, calls, screen, exit_code>>
            /\ UNCHANGED setup_vars
            /\ UNCHANGED frame_vars]_vars
    /\ [][(attempts' # attempts \/ Len(cbs') # Len(cbs) \/ targets' # targets
             \/ calls' \notin {calls, <<>>}) =>
            event = "RedrawRequested" /\ pc \in {"match"} \cup PresenterPcs]_vars

\* Each kind of event has been handled at least once: a frame was presented
\* by a redraw request, a redraw is pending after events-drained, and the
\* last call, for an unrecognised event, left Wait.
C10_Witness ==
    /\ pc = "idle"
    /\ event = "Other"
    /\ written = "Wait"
    /\ control_flow = "Exit"
    /\ redraw_requested
    /\ Len(cbs) = 1

====
